---------------------------- MODULE Spec2Model ----------------------------
(***************************************************************************)
(* Pairing-code registry of clawwatch-setup.                               *)
(*                                                                         *)
(* The repository holds three implementations of the same registry:        *)
(*   "split"  src/api/webhook.js (issuer) + src/api/verify.js (redeemer)   *)
(*   "supa"   src/api/index.js lines 1-342   (Supabase variant)            *)
(*   "comb"   src/api/index.js lines 344-592 (combined variant)            *)
(* Each is a Node.js module: a handler runs synchronously until it awaits, *)
(* so one action of this model is one synchronous section of a handler.    *)
(* A deployment runs one of them; `variant` is fixed in Init.              *)
(* The Supabase variant also relays messages to the watch through the      *)
(* table pending_messages (index.js 69-95, 250-298): SpecMessages.         *)
(***************************************************************************)
EXTENDS Integers, Sequences, FiniteSets, Bags

\* ------------------------------------------------------------------ bounds
\* Number of distinct values Math.random() is sampled over (of 900000), at least 2.
MaxCodes == 2
\* Number of chat users sending webhook messages.
MaxUsers == 2
\* Number of codes issued in one run (each stored record gets a serial).
MaxIssues == 2
\* Number of handlers suspended at an await at the same time.
MaxInFlight == 2
\* The clock takes the values 0 (the start) and CODE_EXPIRY_MS + j, j <= MaxOffset.
MaxOffset == 1
\* Largest advance of the clock between two Date.now() reads of one handler.
MaxSkew == 1
\* Number of rows inserted into the pending_messages table in one run.
MaxMessages == 2
\* Number of getMessages calls started in one run.
MaxPolls == 3

\* ------------------------------------------------------- program constants
CODE_EXPIRY_MS == 300000
CODE_MIN == 100000
CODE_RANGE == 900000

VARIABLES
  variant,       \* which implementation is deployed
  pendingCodes,  \* the Map: code string -> record
  clock,         \* wall clock (ms): the least value Date.now() returns next
  loop,          \* the /connect handler inside its do-while, or NoLoop
  awaiting,      \* the handlers suspended at an await (a bag of continuations)
  resp,          \* what the last step sent: an HTTP response, the chat message
                 \* that names a code, or nothing (NoResp)
  issued,        \* history: per stored record (by serial) its code and its fate
  pending_messages, \* the Supabase table of the same name: its rows, oldest first
  polls,         \* the message handlers suspended in a supabaseQuery (a bag)
  pollCount,     \* history: the number of getMessages calls started
  msgResp,       \* what the last step of a message handler responded
  returned       \* history: per row, the getMessages calls that returned it

vars == <<variant, pendingCodes, clock, loop, awaiting, resp, issued>>

\* The state of the message relay (index.js 69-95, 250-298); it shares
\* nothing with the registry.
msgVars == <<pending_messages, polls, pollCount, msgResp, returned>>

Variants == {"split", "supa", "comb"}

\* ------------------------------------------------------------------ strings
\* A JS string is a sequence of one-character strings.
DigitChars == <<"0", "1", "2", "3", "4", "5", "6", "7", "8", "9">>

IsDigit(ch) == \E i \in 1..10 : DigitChars[i] = ch

IsSpace(ch) == ch = " "

\* Number.prototype.toString() of a non-negative integer.
RECURSIVE NumberToString(_)
NumberToString(n) ==
  IF n < 10 THEN <<DigitChars[n + 1]>>
  ELSE NumberToString(n \div 10) \o <<DigitChars[(n % 10) + 1]>>

RECURSIVE TrimStart(_)
TrimStart(s) == IF s # <<>> /\ IsSpace(Head(s)) THEN TrimStart(Tail(s)) ELSE s

RECURSIVE TrimEnd(_)
TrimEnd(s) ==
  IF s # <<>> /\ IsSpace(s[Len(s)]) THEN TrimEnd(SubSeq(s, 1, Len(s) - 1)) ELSE s

\* String.prototype.trim()
Trim(s) == TrimEnd(TrimStart(s))

\* The test without its anchors: /\d{6}/.test(s)
MatchesSixDigits_Unanchored(s) ==
  \E i \in 1..Len(s) : i + 5 <= Len(s) /\ \A j \in i..(i + 5) : IsDigit(s[j])

\* /^\d{6}$/.test(s)
MatchesSixDigits(s) == Len(s) = 6 /\ \A i \in 1..6 : IsDigit(s[i])

\* -------------------------------------------------------------------- clock
\* The instants of a run: the start, and the instants at and after the expiry
\* of a code issued at the start.
Times == {0} \cup {CODE_EXPIRY_MS + j : j \in 0..MaxOffset}

\* The values a Date.now() call can return when the previous reading was t.
Reads(t) == {u \in Times : t <= u /\ u <= t + MaxSkew}

\* ---------------------------------------------------------------- generator
\* Math.random() is modelled by k = floor(random * 900000); the model samples
\* MaxCodes values of k: the least ones and the greatest.
Draws == (0..(MaxCodes - 2)) \cup {CODE_RANGE - 1}

\* A generator without the offset: Math.floor(Math.random() * 900000).toString()
generateCode_NoOffset(k) == NumberToString(k)

generateCode(k) == NumberToString(CODE_MIN + k)

KnownCodes == {generateCode(k) : k \in Draws}

\* ---------------------------------------------------------------- JS values
Undefined == "<undefined>"
Null == "<null>"
NoTime == 0 - 1

\* message.from / message.chat of the chat users: user 1 writes in a private
\* chat (chat id = user id) and has a first name and a username, the others
\* write from a group chat (negative id) and have neither.
Users == 1..MaxUsers
ChatIdOf(u) == IF u = 1 THEN 1 ELSE 0 - u
FirstNameOf(u) == IF u = 1 THEN "Ann" ELSE Undefined
UsernameOf(u) == IF u = 1 THEN "ann" ELSE Undefined

\* a || b for strings
OrElse(a, b) == IF a = Undefined \/ a = "" THEN b ELSE a

NoRec == [chatId |-> 0, userId |-> 0, username |-> Undefined, firstName |-> Undefined,
          createdAt |-> NoTime, expiresAt |-> NoTime, id |-> 0]

\* The value of req.body.code.
CodeMissing == [kind |-> "missing", chars |-> <<>>, num |-> 0]
StrVal(s) == [kind |-> "string", chars |-> s, num |-> 0]
NumVal(n) == [kind |-> "number", chars |-> <<>>, num |-> n]

\* !code
Falsy(v) ==
  \/ v.kind = "missing"
  \/ v.kind = "string" /\ v.chars = <<>>
  \/ v.kind = "number" /\ v.num = 0

\* code.toString()
CodeToString(v) == IF v.kind = "number" THEN NumberToString(v.num) ELSE v.chars

\* The codes a client submits: none, falsy values, the codes the generator
\* can return (as numbers, as strings, padded with whitespace) and strings
\* that are not six digits (a letter, seven digits, blank).
FirstCode == generateCode(0)

CodeInputs ==
  {CodeMissing, NumVal(0), StrVal(<<>>), StrVal(<<" ">>)}
    \cup {NumVal(CODE_MIN + k) : k \in Draws}
    \cup {StrVal(s) : s \in KnownCodes}
    \cup {StrVal(<<" ">> \o s \o <<" ">>) : s \in KnownCodes}
    \cup {StrVal(<<" ">> \o [FirstCode EXCEPT ![3] = "a"]), StrVal(FirstCode \o <<"7">>)}

\* The value of req.body.message.
\*   "missing": no message (also: the body is not an object)
\*   "notext" : a message without text
\*   "nochat" : a message with text but without chat / from
\*   "text"   : a message with text, chat and from
NoMsg == [kind |-> "missing", text |-> "", user |-> 0]
\* "hello" stands for every text without a branch of its own; /start and /help
\* differ from it only in the message sent.
Texts == {"/connect", "/debug", "hello"}
Messages == {[kind |-> "text", text |-> t, user |-> u] : t \in Texts, u \in Users}
BadMessages ==
  {NoMsg, [kind |-> "notext", text |-> "", user |-> 1],
          [kind |-> "nochat", text |-> "/connect", user |-> 0]}

\* A request: the endpoint it is sent to, its method, whether req.body is
\* defined, and the fields of the body the handlers read.
WebhookPath == "/api/webhook"
VerifyPath == "/api/verify"

\* The requests of the registry's two operations: a chat message, a code.
Requests ==
  {[path |-> WebhookPath, method |-> "POST", hasBody |-> TRUE, message |-> m,
    code |-> CodeMissing] : m \in Messages}
    \cup {[path |-> VerifyPath, method |-> "POST", hasBody |-> TRUE, message |-> NoMsg,
           code |-> v] : v \in CodeInputs}

\* The other requests the HTTP boundary gets: updates without a usable
\* message, requests without a body, other methods.
EdgeRequests ==
  {[path |-> WebhookPath, method |-> "POST", hasBody |-> TRUE, message |-> m,
    code |-> CodeMissing] : m \in BadMessages}
    \cup {[path |-> p, method |-> md, hasBody |-> FALSE, message |-> NoMsg,
           code |-> CodeMissing] :
            p \in {WebhookPath, VerifyPath}, md \in {"POST", "GET", "OPTIONS"}}

\* ---------------------------------------------------------------- responses
NoConfig == [userId |-> 0, chatId |-> 0, username |-> Null, firstName |-> Null,
             tokenUser |-> 0, tokenTime |-> NoTime]

\* What a redeem call found, kept with its response:
\*   input     "none": no code was read; "falsy": !code; "string": codeStr was computed;
\*             of a webhook call that ended before its sweep: what the body
\*             lacked ("nobody", "missing", "notext", "nochat")
\*   code      codeStr, the trimmed code string
\*   before    the fate of that code value when the call started
\*   wasEver   whether a success had been sent for that code value before the call
\*   seen      the record stored under it when the call started (or NoRec)
\*   hit       whether the lookup returned a record (then it returned `seen`)
\*   at        the first clock reading of the call (the clock, when it reads none;
\*             NoTime once the call has been suspended at an await)
\*   checkedAt the clock reading of the expiry check (or NoTime)
\*   again     whether a success had already been sent for the record returned
NoCall == [input |-> "none", code |-> <<>>, before |-> "never", wasEver |-> FALSE,
           seen |-> NoRec, hit |-> FALSE, at |-> NoTime, checkedAt |-> NoTime,
           again |-> FALSE]

\* fault: the throw that led to the response ("none", "input", "send", "addUser")
\* told: the keys of the store named in the text of a chat message
NoResp == [handler |-> "none", status |-> 0, success |-> Undefined, error |-> Undefined,
           config |-> NoConfig, size |-> NoTime, fault |-> "none", call |-> NoCall,
           told |-> {}]

\* res.status(status).json({ ok: true }) / .json({ error: err })
WebhookResp(status, err, fault) ==
  [handler |-> "webhook", status |-> status, success |-> Undefined, error |-> err,
   config |-> NoConfig, size |-> NoTime, fault |-> fault, call |-> NoCall,
   told |-> {}]

\* res.status(status).json({ success: false, error: err })
VerifyFail(status, err, fault, call) ==
  [handler |-> "verify", status |-> status, success |-> "false", error |-> err,
   config |-> NoConfig, size |-> NoTime, fault |-> fault, call |-> call,
   told |-> {}]

\* res.status(status).end()
VerifyEnd(status) ==
  [handler |-> "verify", status |-> status, success |-> Undefined, error |-> Undefined,
   config |-> NoConfig, size |-> NoTime, fault |-> "none", call |-> NoCall,
   told |-> {}]

\* The service description a GET is answered with; the combined variant adds
\* pendingCodes.size.
InfoResp(size) ==
  [handler |-> "info", status |-> 200, success |-> Undefined, error |-> Undefined,
   config |-> NoConfig, size |-> size, fault |-> "none", call |-> NoCall,
   told |-> {}]

\* sendTelegramMessage(chatId, text) called for user u with a text that names
\* the keys `codes`: the code of a /connect, the key list of a /debug (which
\* also gives pendingCodes.size).
TelegramMsg(u, codes, size) ==
  [NoResp EXCEPT !.handler = "telegram", !.config.userId = u,
                 !.config.chatId = ChatIdOf(u), !.size = size, !.told = codes]

\* ------------------------------------------------------------------ the Map
\* pendingCodes.has(c)
MapHas(pc, c) == c \in DOMAIN pc

\* pendingCodes.get(c), NoRec standing for undefined
MapGet(pc, c) == IF c \in DOMAIN pc THEN pc[c] ELSE NoRec

\* pendingCodes.delete(c)
MapDelete(pc, c) == [k \in DOMAIN pc \ {c} |-> pc[k]]

\* pendingCodes.set(c, rec)
MapSet(pc, c, rec) == [k \in DOMAIN pc \cup {c} |-> IF k = c THEN rec ELSE pc[k]]

\* The comparison turned round: now < data.expiresAt
IsExpired_Reversed(t, data) == t < data.expiresAt

\* A comparison that also holds at the deadline itself: now >= data.expiresAt
IsExpired_OrEqual(t, data) == t >= data.expiresAt

\* now > data.expiresAt
IsExpired(t, data) == t > data.expiresAt

\* A redeemer without the delete of line 69 (verify.js).
Consume_Keep(pc, codeStr) == pc

\* pendingCodes.delete(codeStr) of a valid code: one-time use
Consume(pc, codeStr) == MapDelete(pc, codeStr)

\* A sweep that also removes the records expiring at this very instant
\* (now >= data.expiresAt).
cleanExpiredCodes_Eager(pc, t) == [k \in {c \in DOMAIN pc : t < pc[c].expiresAt} |-> pc[k]]

\* cleanExpiredCodes() with now = t
cleanExpiredCodes(pc, t) == [k \in {c \in DOMAIN pc : ~IsExpired(t, pc[c])} |-> pc[k]]

\* ------------------------------------------------------------------ history
\* issued[i] is the code of the i-th record stored and what happened to it:
\*   "stored"    it is in the Map
\*   "expired"   a sweep or an expiry check removed it
\*   "redeemed"  a success response was sent for it
\*   "lost"      the delete of a redeem that had looked up another record
\*               removed it
nextId == Len(issued) + 1

IdsOf(c) == {i \in 1..Len(issued) : issued[i].code = c}

LastId(c) == CHOOSE i \in IdsOf(c) : \A j \in IdsOf(c) : j <= i

\* What happened last to code value c.
FateOf(c) == IF IdsOf(c) = {} THEN "never" ELSE issued[LastId(c)].status

\* Whether a success response was ever sent for code value c.
EverRedeemed(c) == \E i \in IdsOf(c) : issued[i].status \in {"redeemed", "lost"}

\* The history once the store went from pc to pc2 and the records that
\* disappeared are given the fate `what`.
Removed(h, pc, pc2, what) ==
  [i \in 1..Len(h) |->
     IF h[i].status = "stored" /\ h[i].code \in DOMAIN pc /\ h[i].code \notin DOMAIN pc2
     THEN [h[i] EXCEPT !.status = what] ELSE h[i]]

\* The history once a success response was sent for record `data`.
Redeemed(h, data) ==
  [i \in 1..Len(h) |-> IF i = data.id THEN [h[i] EXCEPT !.status = "redeemed"] ELSE h[i]]

\* ------------------------------------------------------ handler bookkeeping
\* resampled: a candidate was rejected; turn: the parity of the passes made.
NoLoop == [active |-> FALSE, user |-> 0, resampled |-> FALSE, turn |-> 0]

CanSuspend == BagCardinality(awaiting) < MaxInFlight

Suspend(k) == awaiting' = awaiting (+) SetToBag({k})

Resume(k) == awaiting' = awaiting (-) SetToBag({k})

\* A webhook handler suspended in `await sendTelegramMessage(...)`; what is
\* left of it is the response. code is the code a /connect stored (or <<>>).
SendCont(code) == [op |-> "send", code |-> code, data |-> NoRec, call |-> NoCall]

\* A handleVerify suspended in `await addUser(...)`.
AddUserCont(code, data, call) ==
  [op |-> "addUser", code |-> code, data |-> data, call |-> call]

\* ------------------------------------------------------------------ webhook
\* The webhook handlers from `const { message } = req.body` to the first
\* await (or to the entry of the do-while of /connect).
WebhookBody(req) ==
  IF ~req.hasBody \/ req.message.kind = "nochat"
  THEN \* destructuring undefined, or message.chat.id of undefined: TypeError
       /\ resp' = [WebhookResp(500, "Internal error", "input")
                     EXCEPT !.call.input = IF req.hasBody THEN "nochat" ELSE "nobody"]
       /\ UNCHANGED <<pendingCodes, clock, loop, awaiting, issued>>
  ELSE IF req.message.kind \in {"missing", "notext"}
  THEN /\ resp' = [WebhookResp(200, Undefined, "none")
                     EXCEPT !.call.input = req.message.kind]
       /\ UNCHANGED <<pendingCodes, clock, loop, awaiting, issued>>
  ELSE \E t \in Reads(clock) :
         LET swept == cleanExpiredCodes(pendingCodes, t) IN
         /\ CanSuspend
         /\ clock' = t
         /\ pendingCodes' = swept
         /\ issued' = Removed(issued, pendingCodes, swept, "expired")
         /\ resp' = IF variant = "comb" /\ req.message.text = "/debug"
                    THEN TelegramMsg(req.message.user, DOMAIN swept,
                                     Cardinality(DOMAIN swept))
                    ELSE NoResp
         /\ IF req.message.text = "/connect"
            THEN \* MaxIssues caps the records stored in a run; a /connect that
                 \* finds every value of the generator taken stores none.
                 /\ \/ nextId <= MaxIssues
                    \/ \A k \in Draws : MapHas(swept, generateCode(k))
                 /\ loop' = [active |-> TRUE, user |-> req.message.user,
                             resampled |-> FALSE, turn |-> 0]
                 /\ UNCHANGED awaiting
            ELSE /\ Suspend(SendCont(<<>>))
                 /\ UNCHANGED loop

\* The record /connect stores: webhook.js and the combined variant keep
\* createdAt and default the username to ''; the Supabase variant keeps neither.
NewRecord(u, tCreated, tExpiry) ==
  [chatId |-> ChatIdOf(u), userId |-> u,
   username |-> IF variant = "supa" THEN UsernameOf(u) ELSE OrElse(UsernameOf(u), ""),
   firstName |-> OrElse(FirstNameOf(u), "there"),
   createdAt |-> IF variant = "supa" THEN NoTime ELSE tCreated,
   expiresAt |-> tExpiry + CODE_EXPIRY_MS,
   id |-> nextId]

\* /connect without the do-while: the first candidate is stored.
LoopAgain_Never(code) == FALSE

\* do { code = generateCode(); } while (pendingCodes.has(code));
LoopAgain(code) == MapHas(pendingCodes, code)

\* One pass of the do-while of /connect and, when the candidate is free, the
\* rest of the synchronous section: pendingCodes.set and the call of
\* sendTelegramMessage.
\* k is the value Math.random() gives in this pass.
ConnectDraw(k) ==
  /\ loop.active
  /\ LET code == generateCode(k) IN
     IF LoopAgain(code)
     THEN /\ loop' = [loop EXCEPT !.resampled = TRUE, !.turn = 1 - @]
          /\ resp' = NoResp
          /\ UNCHANGED <<pendingCodes, clock, awaiting, issued>>
     ELSE \E t1 \in Reads(clock) : \E t2 \in Reads(t1) :
            LET rec == NewRecord(loop.user, t1, t2) IN
            /\ variant = "supa" => t2 = t1   \* one Date.now() only
            /\ pendingCodes' = MapSet(pendingCodes, code, rec)
            /\ clock' = t2
            /\ issued' = Append(issued, [code |-> code, status |-> "stored"])
            /\ loop' = NoLoop
            /\ resp' = TelegramMsg(loop.user, {code}, NoTime)
            /\ Suspend(SendCont(code))
  /\ UNCHANGED variant

ConnectSample == \E k \in Draws : ConnectDraw(k)

\* await sendTelegramMessage(...) returned: res.status(200).json({ ok: true })
SendDone(k) ==
  /\ ~loop.active
  /\ k \in BagToSet(awaiting) /\ k.op = "send"
  /\ Resume(k)
  /\ resp' = WebhookResp(200, Undefined, "none")
  /\ UNCHANGED <<variant, pendingCodes, clock, loop, issued>>

\* A catch block that takes back the code the failed /connect stored.
SendFail_Rollback(k) ==
  /\ ~loop.active
  /\ k \in BagToSet(awaiting) /\ k.op = "send"
  /\ Resume(k)
  /\ pendingCodes' = MapDelete(pendingCodes, k.code)
  /\ issued' = Removed(issued, pendingCodes, pendingCodes', "expired")
  /\ resp' = [WebhookResp(500, "Internal error", "send") EXCEPT !.call.code = k.code]
  /\ UNCHANGED <<variant, clock, loop>>

\* await sendTelegramMessage(...) threw (fetch rejected): the catch block
SendFail(k) ==
  /\ ~loop.active
  /\ k \in BagToSet(awaiting) /\ k.op = "send"
  /\ Resume(k)
  /\ resp' = [WebhookResp(500, "Internal error", "send") EXCEPT !.call.code = k.code]
  /\ UNCHANGED <<variant, pendingCodes, clock, loop, issued>>

\* webhook.js: export default async function handler(req, res)
WebhookHandler(req) ==
  /\ variant = "split" /\ req.path = WebhookPath /\ ~loop.active
  /\ IF req.method # "POST"
     THEN /\ resp' = WebhookResp(405, "Method not allowed", "none")
          /\ UNCHANGED <<pendingCodes, clock, loop, awaiting, issued>>
     ELSE WebhookBody(req)
  /\ UNCHANGED variant

\* ------------------------------------------------------------------- verify
\* The config of a success response; the Supabase variant sends no
\* apiEndpoint and no sessionToken, the others mint `cw_${userId}_${Date.now()}`.
Config(data, tToken) ==
  [userId |-> data.userId, chatId |-> data.chatId,
   username |-> OrElse(data.username, Null),
   firstName |-> OrElse(data.firstName, Null),
   tokenUser |-> IF variant = "supa" THEN 0 ELSE data.userId,
   tokenTime |-> IF variant = "supa" THEN NoTime ELSE tToken]

\* res.status(200).json({ success: true, config: {...} })
VerifyOk(data, tToken, call) ==
  [handler |-> "verify", status |-> 200, success |-> "true", error |-> Undefined,
   config |-> Config(data, tToken), size |-> NoTime, fault |-> "none",
   call |-> [call EXCEPT !.again = issued[data.id].status = "redeemed"],
   told |-> {}]

\* What a redeem call of codeStr finds when it starts with first clock reading t.
CallOf(codeStr, t) ==
  [input |-> "string", code |-> codeStr, before |-> FateOf(codeStr),
   wasEver |-> EverRedeemed(codeStr), seen |-> MapGet(pendingCodes, codeStr),
   hit |-> FALSE, at |-> t, checkedAt |-> NoTime, again |-> FALSE]

\* A redeemer that answers 410 for a code it knows to have expired.
NotFound_AsExpired(call) ==
  IF call.before = "expired"
  THEN VerifyFail(410, "Code has expired. Please request a new one.", "none", call)
  ELSE VerifyFail(404, "Invalid or expired code", "none", call)

\* res.status(404).json({ success: false, error: 'Invalid or expired code' })
NotFound(call) == VerifyFail(404, "Invalid or expired code", "none", call)

\* The checks the verify handlers make before they touch the store: the
\* response they end with, or NoResp when the code is well formed.
\*   const { code } = req.body; if (!code) ...; code.toString().trim(); regex
EarlyReject(req, required) ==
  IF ~req.hasBody THEN VerifyFail(500, "Server error", "input", NoCall)
  ELSE IF Falsy(req.code)
       THEN VerifyFail(400, required, "none", [NoCall EXCEPT !.input = "falsy"])
  ELSE IF ~MatchesSixDigits(Trim(CodeToString(req.code)))
       THEN VerifyFail(400, "Invalid code format", "none",
                       [NoCall EXCEPT !.input = "string",
                                      !.code = Trim(CodeToString(req.code))])
  ELSE NoResp

\* verify.js lines 50-85: lookup, expiry check, delete, response.
VerifyLookup(codeStr) ==
  LET codeData == MapGet(pendingCodes, codeStr) IN
  IF codeData = NoRec
  THEN /\ resp' = NotFound(CallOf(codeStr, clock))
       /\ UNCHANGED <<pendingCodes, clock, issued>>
  ELSE \E t \in Reads(clock) :
         LET call == [CallOf(codeStr, t) EXCEPT !.hit = TRUE, !.checkedAt = t] IN
         IF IsExpired(t, codeData)
         THEN /\ pendingCodes' = MapDelete(pendingCodes, codeStr)
              /\ issued' = Removed(issued, pendingCodes, pendingCodes', "expired")
              /\ clock' = t
              /\ resp' = VerifyFail(410, "Code has expired. Please request a new one.",
                                    "none", call)
         ELSE \E t2 \in Reads(t) :
                /\ pendingCodes' = Consume(pendingCodes, codeStr)
                /\ issued' = Redeemed(issued, codeData)
                /\ clock' = t2
                /\ resp' = VerifyOk(codeData, t2, call)

\* verify.js: export default async function handler(req, res)
VerifyHandler(req) ==
  /\ variant = "split" /\ req.path = VerifyPath /\ ~loop.active
  /\ IF req.method = "OPTIONS"
     THEN /\ resp' = VerifyEnd(200)
          /\ UNCHANGED <<pendingCodes, clock, issued>>
     ELSE IF req.method # "POST"
     THEN /\ resp' = VerifyFail(405, "Method not allowed", "none", NoCall)
          /\ UNCHANGED <<pendingCodes, clock, issued>>
     ELSE IF EarlyReject(req, "Code is required") # NoResp
     THEN /\ resp' = EarlyReject(req, "Code is required")
          /\ UNCHANGED <<pendingCodes, clock, issued>>
     ELSE VerifyLookup(Trim(CodeToString(req.code)))
  /\ UNCHANGED <<variant, loop, awaiting>>

\* ------------------------------------------------- index.js, Supabase variant
\* handleWebhook (index.js 113-170)
SupaHandleWebhook(req) == WebhookBody(req) /\ UNCHANGED variant

\* handleVerify (index.js 172-214) up to `await addUser(...)`.
SupaHandleVerify(req) ==
  /\ UNCHANGED <<variant, loop>>
  /\ IF req.method = "OPTIONS"
     THEN /\ resp' = VerifyEnd(200)
          /\ UNCHANGED <<pendingCodes, clock, issued, awaiting>>
     ELSE IF EarlyReject(req, "Code required") # NoResp
     THEN /\ resp' = EarlyReject(req, "Code required")
          /\ UNCHANGED <<pendingCodes, clock, issued, awaiting>>
     ELSE
       \E t1 \in Reads(clock) :
         LET codeStr == Trim(CodeToString(req.code))
             swept == cleanExpiredCodes(pendingCodes, t1)
             codeData == MapGet(swept, codeStr)
         IN
         \* !codeData || Date.now() > codeData.expiresAt
         \E t2 \in IF codeData = NoRec THEN {t1} ELSE Reads(t1) :
           LET call == [CallOf(codeStr, t1) EXCEPT !.hit = codeData # NoRec,
                          !.checkedAt = IF codeData = NoRec THEN NoTime ELSE t2]
           IN
           /\ clock' = t2
           /\ IF codeData = NoRec \/ IsExpired(t2, codeData)
              THEN /\ pendingCodes' = MapDelete(swept, codeStr)
                   /\ issued' = Removed(issued, pendingCodes, pendingCodes', "expired")
                   /\ resp' = NotFound(call)
                   /\ UNCHANGED awaiting
              ELSE /\ CanSuspend
                   /\ pendingCodes' = swept
                   /\ issued' = Removed(issued, pendingCodes, swept, "expired")
                   /\ resp' = NoResp
                   /\ Suspend(AddUserCont(codeStr, codeData, [call EXCEPT !.at = NoTime]))

\* `await addUser(...)` returned (also with null, when Supabase is not
\* configured or answers with an error status): index.js 197-209.
AddUserDone(k) ==
  /\ ~loop.active
  /\ k \in BagToSet(awaiting) /\ k.op = "addUser"
  /\ Resume(k)
  /\ pendingCodes' = Consume(pendingCodes, k.code)
  /\ issued' = Redeemed(Removed(issued, pendingCodes, pendingCodes', "lost"), k.data)
  /\ resp' = VerifyOk(k.data, NoTime, k.call)
  /\ UNCHANGED <<variant, clock, loop>>

\* A catch block that also deletes the code the call was redeeming.
AddUserFail_Consume(k) ==
  /\ ~loop.active
  /\ k \in BagToSet(awaiting) /\ k.op = "addUser"
  /\ Resume(k)
  /\ pendingCodes' = MapDelete(pendingCodes, k.code)
  /\ issued' = Removed(issued, pendingCodes, pendingCodes', "lost")
  /\ resp' = VerifyFail(500, "Server error", "addUser", k.call)
  /\ UNCHANGED <<variant, clock, loop>>

\* `await addUser(...)` threw (fetch rejected, JSON.parse failed): index.js 210-213.
AddUserFail(k) ==
  /\ ~loop.active
  /\ k \in BagToSet(awaiting) /\ k.op = "addUser"
  /\ Resume(k)
  /\ resp' = VerifyFail(500, "Server error", "addUser", k.call)
  /\ UNCHANGED <<variant, pendingCodes, clock, loop, issued>>

\* req.body?.message && !req.body?.chatId (no request of the model has a chatId)
IsTelegramUpdate(req) ==
  req.method = "POST" /\ req.hasBody /\ req.message.kind # "missing"

\* export default async function handler(req, res) (index.js 323-342)
SupaHandler(req) ==
  /\ variant = "supa" /\ ~loop.active
  /\ IF IsTelegramUpdate(req) THEN SupaHandleWebhook(req)
     ELSE IF req.method \in {"POST", "OPTIONS"} THEN SupaHandleVerify(req)
     ELSE /\ resp' = InfoResp(NoTime)
          /\ UNCHANGED <<variant, pendingCodes, clock, loop, awaiting, issued>>

\* ------------------------------------------------- index.js, combined variant
\* handleWebhook (index.js 381-459)
CombHandleWebhook(req) == WebhookBody(req) /\ UNCHANGED variant

\* handleVerify (index.js 461-521)
CombHandleVerify(req) ==
  /\ UNCHANGED <<variant, loop, awaiting>>
  /\ IF req.method = "OPTIONS"
     THEN /\ resp' = VerifyEnd(200)
          /\ UNCHANGED <<pendingCodes, clock, issued>>
     ELSE IF EarlyReject(req, "Code is required") # NoResp
     THEN /\ resp' = EarlyReject(req, "Code is required")
          /\ UNCHANGED <<pendingCodes, clock, issued>>
     ELSE
       \E t1 \in Reads(clock) :
         LET codeStr == Trim(CodeToString(req.code))
             swept == cleanExpiredCodes(pendingCodes, t1)
             codeData == MapGet(swept, codeStr)
         IN
         IF codeData = NoRec
         THEN /\ pendingCodes' = swept
              /\ issued' = Removed(issued, pendingCodes, swept, "expired")
              /\ clock' = t1
              /\ resp' = NotFound(CallOf(codeStr, t1))
         ELSE \E t2 \in Reads(t1) :
                LET call == [CallOf(codeStr, t1) EXCEPT !.hit = TRUE, !.checkedAt = t2]
                IN
                IF IsExpired(t2, codeData)
                THEN /\ pendingCodes' = MapDelete(swept, codeStr)
                     /\ issued' = Removed(issued, pendingCodes, pendingCodes', "expired")
                     /\ clock' = t2
                     /\ resp' = VerifyFail(410, "Code has expired", "none", call)
                ELSE \E t3 \in Reads(t2) :
                       /\ pendingCodes' = Consume(swept, codeStr)
                       /\ issued' = Redeemed(Removed(issued, pendingCodes, swept,
                                                     "expired"), codeData)
                       /\ clock' = t3
                       /\ resp' = VerifyOk(codeData, t3, call)

\* export default async function handler(req, res) (index.js 572-591)
CombHandler(req) ==
  /\ variant = "comb" /\ ~loop.active
  /\ IF IsTelegramUpdate(req) THEN CombHandleWebhook(req)
     ELSE IF req.method \in {"POST", "OPTIONS"} THEN CombHandleVerify(req)
     ELSE /\ resp' = InfoResp(Cardinality(DOMAIN pendingCodes))
          /\ UNCHANGED <<variant, pendingCodes, clock, loop, awaiting, issued>>

\* -------------------------------------------------------------------- time
\* Time passes between two events of the process.
Tick ==
  /\ ~loop.active
  /\ \E t \in Times : t > clock /\ clock' = t
  /\ resp' = NoResp
  /\ UNCHANGED <<variant, pendingCodes, loop, awaiting, issued>>

\* ------------------------------------- index.js, message relay (Supabase variant)
\* The chats messages are stored for and polled by; NoChat is an absent
\* (falsy) chatId, "" an absent (falsy) message.
ChatIds == {ChatIdOf(u) : u \in Users}
NoChat == 0
MessageTexts == {"reply"}
ResponsePath == "/api/response"
MessagesPath == "/api/messages"

\* A request of the relay: chatId is body.chatId (response endpoint) or the
\* chatId parameter of the URL (messages endpoint).
MsgRequests ==
  [path : {ResponsePath, MessagesPath}, method : {"GET", "POST", "OPTIONS"},
   chatId : ChatIds \cup {NoChat}, message : MessageTexts \cup {""}]

\* messages: the rows a 200 of the messages endpoint carries, as <<id, text>>
\* (the id is not part of the response; it tells the rows apart).
\* poll: the serial of the getMessages call that the response ends (or 0).
NoMsgResp == [handler |-> "none", status |-> 0, success |-> Undefined,
              error |-> Undefined, messages |-> <<>>, poll |-> 0]

\* res.status(200).end()
MsgEnd(h) == [NoMsgResp EXCEPT !.handler = h, !.status = 200]

\* res.status(status).json({ success: false, error: err })
MsgFail(h, status, err) ==
  [NoMsgResp EXCEPT !.handler = h, !.status = status, !.success = "false", !.error = err]

\* res.status(200).json({ success: true })
ResponseOk == [NoMsgResp EXCEPT !.handler = "response", !.status = 200, !.success = "true"]

\* res.status(200).json({ success: true, messages: messages.map(...) })
MessagesOk(rows, poll) ==
  [NoMsgResp EXCEPT !.handler = "messages", !.status = 200, !.success = "true",
                    !.messages = rows, !.poll = poll]

\* A handler suspended in `await supabaseQuery(...)`: op is the query
\* ("insert", "select", "patch"), rows what the select returned.
NoPoll == 0
QueryCont(op, chatId, message, poll, rows) ==
  [op |-> op, chatId |-> chatId, message |-> message, poll |-> poll, rows |-> rows]

CanQuery == BagCardinality(polls) < MaxInFlight

InsertsInFlight ==
  LET S == {k \in BagToSet(polls) : k.op = "insert"}
      RECURSIVE Sum(_)
      Sum(T) == IF T = {} THEN 0
                ELSE LET k == CHOOSE x \in T : TRUE
                     IN CopiesIn(k, polls) + Sum(T \ {k})
  IN Sum(S)

\* pending_messages?chat_id=eq.<chatId>&delivered=eq.false&select=id,message,
\* created_at&order=created_at.asc (rows are kept in insertion order)
SelectUndelivered(table, chatId) ==
  SelectSeq(table, LAMBDA row : row.chat_id = chatId /\ ~row.delivered)

\* PATCH pending_messages?id=in.(<ids>) { delivered: true }
MarkDelivered(table, rows) ==
  [i \in DOMAIN table |->
     IF \E j \in DOMAIN rows : rows[j].id = table[i].id
     THEN [table[i] EXCEPT !.delivered = TRUE] ELSE table[i]]

\* The response body of the rows: id (to tell rows apart) and text.
ResponseRows(rows) == [j \in DOMAIN rows |-> <<rows[j].id, rows[j].message>>]

\* History: the call `poll` returned these rows.
Returned(rows, poll) ==
  [i \in DOMAIN returned |->
     IF \E j \in DOMAIN rows : rows[j].id = i
     THEN returned[i] \cup {poll} ELSE returned[i]]

\* handleResponse to its await (index.js 250-261)
handleResponse(req) ==
  /\ IF req.method = "OPTIONS"
     THEN msgResp' = MsgEnd("response") /\ UNCHANGED polls
     ELSE IF req.chatId = NoChat \/ req.message = ""
     THEN /\ msgResp' = MsgFail("response", 400, "Missing chatId or message")
          /\ UNCHANGED polls
     ELSE /\ CanQuery
          /\ Len(pending_messages) + InsertsInFlight < MaxMessages
          /\ polls' = polls (+) SetToBag({QueryCont("insert", req.chatId, req.message,
                                                    NoPoll, <<>>)})
          /\ msgResp' = NoMsgResp
  /\ UNCHANGED <<pending_messages, pollCount, returned>>
  /\ UNCHANGED vars

\* storeMessage inserted the row and returned (index.js 69-78, 262-264).
StoreMessageDone(k) ==
  /\ k \in BagToSet(polls) /\ k.op = "insert"
  /\ polls' = polls (-) SetToBag({k})
  /\ pending_messages' = Append(pending_messages,
        [id |-> Len(pending_messages) + 1, chat_id |-> k.chatId,
         message |-> k.message, delivered |-> FALSE])
  /\ returned' = Append(returned, {})
  /\ msgResp' = ResponseOk
  /\ UNCHANGED pollCount
  /\ UNCHANGED vars

\* supabaseQuery returned null (Supabase not configured, or an error status):
\* nothing is inserted and the handler goes on (index.js 26-29, 40-44, 262-264).
StoreMessageNull(k) ==
  /\ k \in BagToSet(polls) /\ k.op = "insert"
  /\ polls' = polls (-) SetToBag({k})
  /\ msgResp' = ResponseOk
  /\ UNCHANGED <<pending_messages, pollCount, returned>>
  /\ UNCHANGED vars

\* fetch rejected: storeMessage threw (index.js 265-268).
StoreMessageThrow(k) ==
  /\ k \in BagToSet(polls) /\ k.op = "insert"
  /\ polls' = polls (-) SetToBag({k})
  /\ msgResp' = MsgFail("response", 500, "Server error")
  /\ UNCHANGED <<pending_messages, pollCount, returned>>
  /\ UNCHANGED vars

\* handleMessages to the first await of getMessages (index.js 271-284, 80-83)
handleMessages(req) ==
  /\ IF req.method = "OPTIONS"
     THEN msgResp' = MsgEnd("messages") /\ UNCHANGED <<polls, pollCount>>
     ELSE IF req.chatId = NoChat
     THEN /\ msgResp' = MsgFail("messages", 400, "Missing chatId")
          /\ UNCHANGED <<polls, pollCount>>
     ELSE /\ CanQuery /\ pollCount < MaxPolls
          /\ pollCount' = pollCount + 1
          /\ polls' = polls (+) SetToBag({QueryCont("select", req.chatId, "",
                                                    pollCount + 1, <<>>)})
          /\ msgResp' = NoMsgResp
  /\ UNCHANGED <<pending_messages, returned>>
  /\ UNCHANGED vars

\* The select returned its rows: with rows, getMessages sends the PATCH of
\* their ids and awaits it; without, handleMessages responds (index.js 85-94,
\* 286-292).
SelectDone(k) ==
  /\ k \in BagToSet(polls) /\ k.op = "select"
  /\ LET messages == SelectUndelivered(pending_messages, k.chatId)
     IN IF Len(messages) > 0
        THEN /\ polls' = (polls (-) SetToBag({k}))
                           (+) SetToBag({[k EXCEPT !.op = "patch", !.rows = messages]})
             /\ msgResp' = NoMsgResp
        ELSE /\ polls' = polls (-) SetToBag({k})
             /\ msgResp' = MessagesOk(<<>>, k.poll)
  /\ UNCHANGED <<pending_messages, pollCount, returned>>
  /\ UNCHANGED vars

\* The select returned null: `messages || []` (index.js 26-29, 40-44, 94).
SelectNull(k) ==
  /\ k \in BagToSet(polls) /\ k.op = "select"
  /\ polls' = polls (-) SetToBag({k})
  /\ msgResp' = MessagesOk(<<>>, k.poll)
  /\ UNCHANGED <<pending_messages, pollCount, returned>>
  /\ UNCHANGED vars

\* The PATCH marked the rows and returned: the rows are responded
\* (index.js 87-94, 286-292).
PatchDone(k) ==
  /\ k \in BagToSet(polls) /\ k.op = "patch"
  /\ polls' = polls (-) SetToBag({k})
  /\ pending_messages' = MarkDelivered(pending_messages, k.rows)
  /\ msgResp' = MessagesOk(ResponseRows(k.rows), k.poll)
  /\ returned' = Returned(k.rows, k.poll)
  /\ UNCHANGED pollCount
  /\ UNCHANGED vars

\* The PATCH was answered with an error status: supabaseQuery logs it and
\* returns null, no row is marked, the rows are responded all the same
\* (index.js 40-44, 87-94, 286-292).
PatchNull(k) ==
  /\ k \in BagToSet(polls) /\ k.op = "patch"
  /\ polls' = polls (-) SetToBag({k})
  /\ msgResp' = MessagesOk(ResponseRows(k.rows), k.poll)
  /\ returned' = Returned(k.rows, k.poll)
  /\ UNCHANGED <<pending_messages, pollCount>>
  /\ UNCHANGED vars

\* fetch rejected in the select or in the PATCH: getMessages threw, the
\* request is answered 500; a PATCH that was sent may have been applied
\* (index.js 293-296).
QueryThrow(k) ==
  /\ k \in BagToSet(polls) /\ k.op \in {"select", "patch"}
  /\ polls' = polls (-) SetToBag({k})
  /\ \E applied \in BOOLEAN :
       pending_messages' = IF applied /\ k.op = "patch"
                           THEN MarkDelivered(pending_messages, k.rows)
                           ELSE pending_messages
  /\ msgResp' = [MsgFail("messages", 500, "Server error") EXCEPT !.poll = k.poll]
  /\ UNCHANGED <<pollCount, returned>>
  /\ UNCHANGED vars

\* The path dispatch of the handler for the two relay endpoints
\* (index.js 323-327).
RelayHandler(req) ==
  /\ variant = "supa"
  /\ IF req.path = MessagesPath THEN handleMessages(req) ELSE handleResponse(req)

\* ------------------------------------------------------------ specification
MsgInit ==
  /\ pending_messages = <<>>
  /\ polls = EmptyBag
  /\ pollCount = 0
  /\ msgResp = NoMsgResp
  /\ returned = <<>>

Init ==
  /\ variant \in Variants
  /\ pendingCodes = <<>>
  /\ clock = 0
  /\ loop = NoLoop
  /\ awaiting = EmptyBag
  /\ resp = NoResp
  /\ issued = <<>>
  /\ MsgInit

\* The steps of the process when its requests are drawn from R.
NextOver(R) ==
  \/ \E req \in R : WebhookHandler(req) /\ UNCHANGED msgVars
  \/ \E req \in R : VerifyHandler(req) /\ UNCHANGED msgVars
  \/ \E req \in R : SupaHandler(req) /\ UNCHANGED msgVars
  \/ \E req \in R : CombHandler(req) /\ UNCHANGED msgVars
  \/ ConnectSample /\ UNCHANGED msgVars
  \/ \E k \in BagToSet(awaiting) : SendDone(k) /\ UNCHANGED msgVars
  \/ \E k \in BagToSet(awaiting) : SendFail(k) /\ UNCHANGED msgVars
  \/ \E k \in BagToSet(awaiting) : AddUserDone(k) /\ UNCHANGED msgVars
  \/ \E k \in BagToSet(awaiting) : AddUserFail(k) /\ UNCHANGED msgVars
  \/ Tick /\ UNCHANGED msgVars

Next == NextOver(Requests)

NextHttp == NextOver(Requests \cup EdgeRequests)

\* The steps of the message relay.
NextMessages ==
  \/ \E req \in MsgRequests : RelayHandler(req)
  \/ \E k \in BagToSet(polls) : StoreMessageDone(k)
  \/ \E k \in BagToSet(polls) : StoreMessageNull(k)
  \/ \E k \in BagToSet(polls) : StoreMessageThrow(k)
  \/ \E k \in BagToSet(polls) : SelectDone(k)
  \/ \E k \in BagToSet(polls) : SelectNull(k)
  \/ \E k \in BagToSet(polls) : PatchDone(k)
  \/ \E k \in BagToSet(polls) : PatchNull(k)
  \/ \E k \in BagToSet(polls) : QueryThrow(k)

\* The registry under chat messages and submitted codes.
Spec == Init /\ [][Next]_vars

\* The same under every request of the HTTP boundary.
SpecHttp == Init /\ [][NextHttp]_vars

\* The message relay of the Supabase variant, the registry at rest.
InitMessages == Init /\ variant = "supa"

SpecMessages == InitMessages /\ [][NextMessages]_msgVars

\* Math.random() is fair: a do-while that keeps running draws every value of
\* the generator again and again.
FairSampling == \A k \in Draws : SF_vars(ConnectDraw(k))

\* A collaborator call returns or throws: some suspended handler is resumed.
CollaboratorsAnswer ==
  WF_vars(\E k \in BagToSet(awaiting) :
            SendDone(k) \/ SendFail(k) \/ AddUserDone(k) \/ AddUserFail(k))

\* The registry under fair sampling and answering collaborators.
SpecFair == Spec /\ FairSampling /\ CollaboratorsAnswer

\* =================================================================== claims
\* The properties below read the response of the last step (resp) and, in
\* resp.call, what the redeem call that sent it found in the store.

\* "exactly six ASCII digits", written without the regular expression
SixAsciiDigits(s) ==
  Len(s) = 6 /\ \A i \in 1..6 : s[i] \in {"0", "1", "2", "3", "4", "5", "6", "7", "8", "9"}

\* C1: two concurrent redeems of the same stored, unexpired code never both
\* return success: no success response is sent for a record for which a
\* success response was sent before.  The Supabase handleVerify breaks it: the
\* lookup (index.js 188) and the delete (197) are separated by `await addUser`.
C1_NeverTwoSuccesses ==
  (resp.handler = "verify" /\ resp.status = 200) => ~resp.call.again

\* C2 as stated: once a success was sent for a code value, every redeem call
\* of that value that starts later is answered 404, whatever happened in
\* between.  An issue in between can store the freed value again.
C2_LaterRedeemNotFound ==
  (resp.handler = "verify" /\ resp.call.input = "string" /\ resp.call.wasEver)
    => resp.status = 404

\* C2, amended: a redeem call of a code value whose last record went with a
\* success response (no issue has stored that value since) is answered 404.
C2_LaterRedeemNotFoundUntilReissued ==
  (resp.handler = "verify" /\ resp.call.input = "string"
     /\ resp.call.before \in {"redeemed", "lost"})
    => (resp.status = 404 /\ resp.error = "Invalid or expired code")

\* A redeem of an already redeemed code answered 404 after a later issue
\* stored another code.
C2_Witness ==
  /\ resp.handler = "verify" /\ resp.status = 404
  /\ resp.call.before = "redeemed"
  /\ \E c \in DOMAIN pendingCodes : c # resp.call.code

\* C3: a redeem call that starts at now > expiresAt of the record stored under
\* its code is answered 410 and the record is gone afterwards.  Both
\* handleVerify functions of index.js sweep before the lookup (187, 487) and
\* answer 404; the Supabase one has no 410 at all (190-193).
C3_ExpiredAnswered410 ==
  (resp.handler = "verify" /\ resp.call.seen # NoRec
     /\ resp.call.at > resp.call.seen.expiresAt)
    => (resp.status = 410 /\ resp.call.code \notin DOMAIN pendingCodes)

\* C4: a success response implies that the clock reading compared with
\* expiresAt in the expiry check of that call was not later than expiresAt.
C4_SuccessOnlyUnexpired ==
  (resp.handler = "verify" /\ resp.status = 200)
    => (/\ resp.call.hit
        /\ resp.call.checkedAt # NoTime
        /\ resp.call.checkedAt <= resp.call.seen.expiresAt)

\* A success at the last instant of the code: now = expiresAt.
C4_Witness ==
  /\ resp.handler = "verify" /\ resp.status = 200
  /\ resp.call.checkedAt = resp.call.seen.expiresAt

\* C5: (a) a redeem call that finds a record under its code at now < expiresAt
\* (now: the reading of the expiry check, or of the sweep when the lookup
\* missed) and is not ended by a throw of a collaborator is answered with
\* success and that record's userId and chatId; (b) a record leaves the store
\* before its expiry only in the step that sends the success response of a
\* call that looked up that very record.  The Supabase handleVerify breaks (b):
\* its delete after `await addUser` removes whatever is stored under the key.
C5_LiveCodeRedeemable ==
  [][/\ (/\ resp'.handler = "verify" /\ resp'.fault = "none"
         /\ resp'.call.seen # NoRec
         /\ (IF resp'.call.hit THEN resp'.call.checkedAt ELSE resp'.call.at)
              < resp'.call.seen.expiresAt)
          => (/\ resp'.status = 200
              /\ resp'.config.userId = resp'.call.seen.userId
              /\ resp'.config.chatId = resp'.call.seen.chatId)
     /\ \A c \in DOMAIN pendingCodes :
          (clock' < pendingCodes[c].expiresAt /\ c \notin DOMAIN pendingCodes')
            => (/\ resp'.handler = "verify" /\ resp'.status = 200
                /\ resp'.call.seen = pendingCodes[c])
    ]_vars

\* C6: a redeem call whose code is falsy or, after toString and trim, not six
\* digits is answered 400 and changes neither the store nor the fate of any
\* record (nothing added, removed or swept).
C6_MalformedRejectedUntouched ==
  [][(/\ resp'.handler = "verify"
      /\ \/ resp'.call.input = "falsy"
         \/ resp'.call.input = "string" /\ ~SixAsciiDigits(resp'.call.code))
       => (resp'.status = 400 /\ pendingCodes' = pendingCodes /\ issued' = issued)
    ]_vars

\* A malformed code rejected while the store holds a record that a sweep
\* would have removed.
C6_Witness ==
  /\ resp.handler = "verify" /\ resp.status = 400 /\ resp.call.input = "string"
  /\ \E c \in DOMAIN pendingCodes : clock > pendingCodes[c].expiresAt

\* C7: an issue stores its record under a key the store does not hold at that
\* moment, and every record stored and not yet removed is still the one the
\* store holds under its code (none was overwritten).
C7_IssueNeverOverwrites ==
  /\ [](\A i \in 1..Len(issued) :
          issued[i].status = "stored"
            => (/\ issued[i].code \in DOMAIN pendingCodes
                /\ pendingCodes[issued[i].code].id = i))
  /\ [][Len(issued') > Len(issued)
          => issued'[Len(issued')].code \notin DOMAIN pendingCodes]_vars

\* The do-while of a /connect has rejected a candidate that is a key of the store.
C7_Witness ==
  loop.active /\ loop.resampled /\ DOMAIN pendingCodes # {}

\* C8: no step changes the fields of a record that stays in the store, and
\* the steps of an issue (the sweep of its handler, the passes of the
\* do-while, the insert) keep every record that has not expired.
C8_IssueLeavesOthers ==
  [][/\ \A c \in DOMAIN pendingCodes \cap DOMAIN pendingCodes' :
          pendingCodes'[c] = pendingCodes[c]
     /\ (loop.active \/ loop'.active)
          => \A c \in DOMAIN pendingCodes :
               clock' <= pendingCodes[c].expiresAt => c \in DOMAIN pendingCodes'
    ]_vars

\* Two records of different owners are stored, the older one unexpired.
C8_Witness ==
  \E c, d \in DOMAIN pendingCodes :
    /\ pendingCodes[c].id < pendingCodes[d].id
    /\ pendingCodes[c].userId # pendingCodes[d].userId
    /\ clock <= pendingCodes[c].expiresAt

\* C9: when the send of the code message throws after /connect stored the
\* code, the request is answered 500 and the step leaves the store as it is.
C9_SendFailureKeepsCode ==
  [][(resp'.handler = "webhook" /\ resp'.fault = "send" /\ resp'.call.code # <<>>)
       => (resp'.status = 500 /\ pendingCodes' = pendingCodes /\ issued' = issued)
    ]_vars

\* A /connect answered 500 whose code is stored and unexpired.
C9_Witness ==
  /\ resp.handler = "webhook" /\ resp.status = 500 /\ resp.fault = "send"
  /\ resp.call.code \in DOMAIN pendingCodes
  /\ clock <= pendingCodes[resp.call.code].expiresAt

\* C10: every redeem call of a well-formed code whose lookup returns no record
\* is answered with the same response (404, success false, the same error
\* text, no config), whatever the fate of the code before the call (never
\* issued, redeemed, expired and swept).
C10_AbsentCodeSameResponse ==
  (/\ resp.handler = "verify" /\ resp.call.input = "string"
   /\ SixAsciiDigits(resp.call.code) /\ ~resp.call.hit)
    => (/\ resp.status = 404
        /\ resp.success = "false"
        /\ resp.error = "Invalid or expired code"
        /\ resp.config = NoConfig)

\* The answer to a redeem of a code that had expired and been swept.
C10_Witness ==
  /\ resp.handler = "verify" /\ resp.status = 404
  /\ resp.call.before = "expired" /\ resp.call.seen = NoRec


\* C11: every success response of a redeem has success = true and a config
\* with the userId and chatId of the record looked up and a sessionToken
\* minted from that userId at the redemption; every other response of a
\* redeem has no config.  The Supabase handleVerify sends a config without
\* sessionToken (index.js 201-209).
C11_SuccessCarriesSessionToken ==
  resp.handler = "verify"
    => IF resp.success = "true"
       THEN /\ resp.status = 200
            /\ resp.config.userId = resp.call.seen.userId
            /\ resp.config.chatId = resp.call.seen.chatId
            /\ resp.config.tokenUser = resp.call.seen.userId
            /\ resp.config.tokenTime # NoTime
       ELSE resp.config = NoConfig


\* C12: every key of the store, and every code ever stored, is a string of
\* six digits that does not start with 0 (a number of 100000..999999), and no
\* redeem of a code that was ever stored is answered 400.
C12_KeysAreSixDigits ==
  /\ \A c \in DOMAIN pendingCodes : SixAsciiDigits(c) /\ c[1] # "0"
  /\ \A i \in 1..Len(issued) : SixAsciiDigits(issued[i].code) /\ issued[i].code[1] # "0"
  /\ (resp.handler = "verify" /\ resp.status = 400 /\ resp.call.input = "string")
       => \A i \in 1..Len(issued) : issued[i].code # resp.call.code

\* The greatest code of the range was issued and redeemed.
C12_Witness ==
  /\ resp.handler = "verify" /\ resp.status = 200
  /\ resp.call.code = <<"9", "9", "9", "9", "9", "9">>


\* C13: a webhook request without a body, without a message or without
\* message.text is answered 200 { ok: true } and does nothing: no record is
\* added, removed or swept and no message is sent.  webhook.js destructures
\* req.body inside its try block (46): without a body that throws and the
\* catch answers 500.
C13_MalformedUpdateIsNoOp ==
  [][(resp'.handler = "webhook" /\ resp'.call.input \in {"nobody", "missing", "notext"})
       => (/\ resp'.status = 200 /\ resp'.fault = "none"
           /\ pendingCodes' = pendingCodes /\ issued' = issued
           /\ awaiting' = awaiting)
    ]_vars


\* C14: while a /connect is in its do-while, and when a redeem call of a
\* well-formed code has made its lookup, the store holds no record whose
\* expiresAt is earlier than the first clock reading of that call (the
\* reading of its sweep).  verify.js never calls cleanExpiredCodes.
C14_SweptBeforeUse ==
  /\ loop.active => \A c \in DOMAIN pendingCodes : pendingCodes[c].expiresAt >= clock
  /\ (/\ resp.handler = "verify" /\ resp.call.input = "string"
      /\ SixAsciiDigits(resp.call.code) /\ resp.call.at # NoTime)
       => \A c \in DOMAIN pendingCodes : pendingCodes[c].expiresAt >= resp.call.at


\* C15: the sweep of a webhook handler (the step that takes the handler to
\* its do-while or to the await of its send), made at clock reading now,
\* leaves exactly the records with expiresAt >= now, each with its fields
\* unchanged; the handler's reading is the clock after the step.
C15_SweepRemovesExactlyExpired ==
  [][(/\ ~loop.active
      /\ \/ loop'.active
         \/ \E k \in BagToSet(awaiting') :
              k.op = "send" /\ CopiesIn(k, awaiting') > CopiesIn(k, awaiting))
       => (/\ DOMAIN pendingCodes'
                = {c \in DOMAIN pendingCodes : pendingCodes[c].expiresAt >= clock'}
           /\ \A c \in DOMAIN pendingCodes' : pendingCodes'[c] = pendingCodes[c])
    ]_vars

\* A /connect has swept at now = expiresAt of a stored record and kept it.
C15_Witness ==
  /\ loop.active /\ ~loop.resampled
  /\ \E c \in DOMAIN pendingCodes : pendingCodes[c].expiresAt = clock


\* C16: every stored record that has a createdAt has expiresAt = createdAt +
\* CODE_EXPIRY_MS.  webhook.js and the combined variant call Date.now() once
\* for createdAt and once more for expiresAt; the clock can advance between
\* the two calls.
C16_ExpiresFiveMinutesAfterCreation ==
  \A c \in DOMAIN pendingCodes :
    pendingCodes[c].createdAt # NoTime
      => pendingCodes[c].expiresAt = pendingCodes[c].createdAt + CODE_EXPIRY_MS


\* C17: under fair sampling every /connect that enters its do-while leaves
\* it.  When every value of the generator is a key of the store, every pass
\* finds pendingCodes.has(code) true; nothing else runs while the loop
\* spins, so no sweep and no redeem can free a key.
C17_IssueLeavesLoop == loop.active ~> ~loop.active


\* C18: a request that has not been answered yet (its handler is in the
\* do-while or suspended at an await) is followed by a response.  A /connect
\* that spins in its do-while (C17) is never answered, and neither is any
\* handler suspended at that moment.
C18_PendingRequestAnswered ==
  (loop.active \/ awaiting # EmptyBag) ~> (resp.handler \in {"webhook", "verify"})


\* C19: the record a successful redeem removes from under its key is the
\* record its lookup returned.  In the Supabase handleVerify the key can be
\* freed and stored again while the call waits for addUser; its delete then
\* removes the new record.
C19_RedeemDeletesWhatItLookedUp ==
  [][(/\ resp'.handler = "verify" /\ resp'.status = 200
      /\ resp'.call.code \in DOMAIN pendingCodes
      /\ resp'.call.code \notin DOMAIN pendingCodes')
       => pendingCodes[resp'.call.code] = resp'.call.seen
    ]_vars


\* C20: a chat message names no key of the store that was issued to another
\* user than the one it is sent to.  /debug of the combined variant answers
\* any user with pendingCodes.size and the list of all keys (index.js 441-447).
C20_NoForeignCodeTold ==
  resp.handler = "telegram"
    => \A c \in resp.told \cap DOMAIN pendingCodes :
         pendingCodes[c].userId = resp.config.userId


\* C21: in the Supabase handleVerify, when addUser throws the request is
\* answered 500 and the step leaves the store as it is; while the record the
\* call looked up is still stored and unexpired, a further redeem call of the
\* code is accepted (it reaches its own addUser); and a success response is
\* sent only by the step in which an addUser call of that code returns.
C21_AddUserThrowKeepsCode ==
  /\ [][/\ (resp'.handler = "verify" /\ resp'.fault = "addUser")
            => (resp'.status = 500 /\ resp'.success = "false"
                /\ pendingCodes' = pendingCodes /\ issued' = issued)
        /\ (variant = "supa" /\ resp'.handler = "verify" /\ resp'.success = "true")
            => \E k \in BagToSet(awaiting) :
                 /\ k.op = "addUser" /\ k.code = resp'.call.code
                 /\ awaiting' = awaiting (-) SetToBag({k})
       ]_vars
  /\ []((/\ resp.handler = "verify" /\ resp.fault = "addUser"
         /\ resp.call.code \in DOMAIN pendingCodes
         /\ clock <= pendingCodes[resp.call.code].expiresAt)
        => ENABLED (\E req \in Requests :
                     /\ SupaHandleVerify(req)
                     /\ \E k \in BagToSet(awaiting') :
                          /\ k.op = "addUser" /\ k.code = resp.call.code
                          /\ CopiesIn(k, awaiting') > CopiesIn(k, awaiting)))

\* A redeem call answered 500 because addUser threw, whose record is still
\* stored, unredeemed and unexpired.
C21_Witness ==
  /\ variant = "supa"
  /\ resp.handler = "verify" /\ resp.status = 500 /\ resp.fault = "addUser"
  /\ resp.call.code \in DOMAIN pendingCodes
  /\ pendingCodes[resp.call.code] = resp.call.seen
  /\ issued[resp.call.seen.id].status = "stored"
  /\ clock <= pendingCodes[resp.call.code].expiresAt


\* C22: every row stored through the response endpoint is returned by the
\* messages endpoint to at most one getMessages call.
C22_ReturnedToAtMostOnePoll ==
  \A i \in DOMAIN returned : Cardinality(returned[i]) <= 1

=============================================================================
